---- MODULE Spec2Model ----
(***************************************************************************)
(* A model of DashGraph (src/plot.js): the binary search, the per-series   *)
(* visible window and colour-filter cursor, the preprocess/renderData      *)
(* pass, the tick computation and the drag-to-zoom event handlers.         *)
(*                                                                         *)
(* JavaScript values.  A number is a pair <<n, d>>: the rational n/d with  *)
(* d > 0 in lowest terms, or <<1,0>> (+Infinity), <<-1,0>> (-Infinity),    *)
(* <<0,0>> (NaN).  undefined is <<>> and null is <<"null">>.  Arithmetic   *)
(* is exact (rational) where IEEE doubles would round; the sign of zero    *)
(* is not kept.  Arrays are 0-based in the source and 1-based sequences    *)
(* here: element i of the source is a[i+1].                                *)
(*                                                                         *)
(* The loops of the source are recursive operators.  Each binds the value  *)
(* it carries from one iteration to the next with the idiom                *)
(*     CHOOSE r \in {Body(v) : v \in {carried}} : TRUE                     *)
(* which is Body(carried), with carried evaluated once.                    *)
(***************************************************************************)
EXTENDS Integers, Sequences, FiniteSets, TLC

VARIABLES bs, data, plot, rs, walk, ev, call

vars == <<bs, data, plot, rs, walk, ev, call>>

----------------------------------------------------------------------------
(* Bounds of the model *)

\* largest array length drawn for the binary search
MaxLen == 5
\* array elements of the binary search are drawn from 0..MaxVal
MaxVal == 5
\* largest number of points of a series in the window/cursor specification
MaxPts == 5
\* largest number of points of a generated series in the render specification
RenderMaxPts == 3
\* largest number of zoom ranges committed by pointer-up in one behaviour
MaxCommits == 1
\* largest number of series added to a plot that is being populated
MaxSeries == 2

----------------------------------------------------------------------------
(* JavaScript numbers *)

Undefined == <<>>
Null == <<"null">>
NaN == <<0, 0>>
PosInf == <<1, 0>>
NegInf == <<-1, 0>>

AbsInt(i) == IF i < 0 THEN -i ELSE i
SgnInt(i) == IF i < 0 THEN -1 ELSE IF i > 0 THEN 1 ELSE 0

RECURSIVE Gcd(_, _)
Gcd(a, b) == IF b = 0 THEN a ELSE Gcd(b, a % b)

\* the number n/d, in the representation described above
Norm(n, d) ==
    IF d = 0 THEN <<SgnInt(n), 0>>
    ELSE LET g == Gcd(AbsInt(n), AbsInt(d))
             s == SgnInt(d)
         IN  <<(s * n) \div g, (s * d) \div g>>

N(i) == <<i, 1>>
IsNaN(a) == a = NaN
IsFinite(a) == a[2] # 0

\* ToNumber: undefined -> NaN, null -> +0
ToNum(v) == IF v = Undefined THEN NaN ELSE IF v = Null THEN N(0) ELSE v

Neg(a) == <<-a[1], a[2]>>
\* sums, products and comparisons cancel common factors before they multiply
Add(a, b) ==
    IF a[2] = 0 /\ b[2] = 0
    THEN IF a = b THEN a ELSE NaN
    ELSE IF a[2] = 0 \/ b[2] = 0
    THEN Norm(a[1] * b[2] + b[1] * a[2], 0)
    ELSE LET g == Gcd(a[2], b[2])
         IN  Norm(a[1] * (b[2] \div g) + b[1] * (a[2] \div g), (a[2] \div g) * b[2])
Sub(a, b) == Add(a, Neg(b))
Mul(a, b) ==
    IF a[2] = 0 \/ b[2] = 0
    THEN Norm(SgnInt(a[1]) * SgnInt(b[1]), 0)
    ELSE LET g1 == Gcd(AbsInt(a[1]), b[2])
             g2 == Gcd(AbsInt(b[1]), a[2])
         IN  Norm((a[1] \div g1) * (b[1] \div g2), (a[2] \div g2) * (b[2] \div g1))
Recip(a) == IF a[1] < 0 THEN <<-a[2], -a[1]>> ELSE <<a[2], a[1]>>
Div(a, b) == Mul(a, Recip(b))
Abs(a) == <<AbsInt(a[1]), a[2]>>

\* a < b, false when either is NaN
Lt(a, b) ==
    /\ ~IsNaN(a)
    /\ ~IsNaN(b)
    /\ IF a[2] = 0 /\ b[2] = 0 THEN a[1] < b[1]
       ELSE IF a[2] = 0 \/ b[2] = 0 THEN a[1] * b[2] < b[1] * a[2]
       ELSE LET g == Gcd(a[2], b[2])
            IN  a[1] * (b[2] \div g) < b[1] * (a[2] \div g)
Gt(a, b) == Lt(b, a)
Le(a, b) == ~IsNaN(a) /\ ~IsNaN(b) /\ ~Lt(b, a)
Ge(a, b) == Le(b, a)

\* v | 0: ToInt32 truncates toward zero; NaN and the infinities give 0
OrZero(a) ==
    IF a[2] = 0 THEN N(0)
    ELSE N(SgnInt(a[1]) * (AbsInt(a[1]) \div a[2]))

\* a[i] of the source for a JavaScript value i: undefined unless i is an
\* integer index of the array
IsIndex(a, v) == Len(v) = 2 /\ v[2] = 1 /\ v[1] >= 0 /\ v[1] < Len(a)
Elem(a, v) == IF IsIndex(a, v) THEN N(a[v[1] + 1]) ELSE Undefined

----------------------------------------------------------------------------
(* DashGraph.binarySearch *)

RoundMidStuck(lo, hi) == lo

\* Math.round((lo + hi) / 2) for integers lo, hi (half rounds up)
RoundMid(lo, hi) == (lo + hi + 1) \div 2

\* one iteration of the while loop on the pair <<lo, hi>>
bsStep(a, x, lh) ==
    LET mid == RoundMid(lh[1], lh[2])
    IN  IF Le(N(a[mid + 1]), ToNum(x)) THEN <<mid, lh[2]>> ELSE <<lh[1], mid>>

RECURSIVE bsLoop(_, _, _)
bsLoop(a, x, lh0) ==
    CHOOSE r \in {IF lh[2] - lh[1] > 1 THEN bsLoop(a, x, bsStep(a, x, lh)) ELSE lh :
                    lh \in {lh0}} : TRUE

bsReturnSwapped(lh, upper) == IF upper THEN lh[1] ELSE lh[2]

bsReturn(lh, upper) == IF upper THEN lh[2] ELSE lh[1]

binarySearch(a, x, upper) == bsReturn(bsLoop(a, x, <<0, Len(a) - 1>>), upper)

----------------------------------------------------------------------------
(* DashGraph.Data *)

\* options.filter.colors[k] as a stroke colour; "undefined" and "null" stand
\* for the JavaScript values of those names
ColorAt(colors, v) == IF IsIndex(colors, v) THEN colors[v[1] + 1] ELSE "undefined"

\* new DashGraph.Data(x, y, options).  tuple says that the elements of y are
\* arrays; options is [plotType, hasFilter, index, colors], plotType "" when
\* the option is absent.  The constructor leaves filter.curFiltInd and
\* filter.nextInd unset.
Data(x, y, tuple, options) ==
    [x |-> x, y |-> y, tuple |-> tuple,
     plotType |-> IF options.plotType # "" THEN options.plotType ELSE "normal",
     hasFilter |-> options.hasFilter, hasColor |-> options.hasFilter,
     index |-> options.index, colors |-> options.colors,
     curFiltInd |-> Undefined, nextInd |-> Undefined,
     startInd |-> 0, stopInd |-> Len(x) - 1]

resetBounds(s) ==
    LET w == [s EXCEPT !.startInd = 0, !.stopInd = Len(s.x) - 1]
    IN  IF s.hasFilter
        THEN [w EXCEPT !.curFiltInd = N(0),
                       !.nextInd = IF 0 = Len(s.index) - 1 THEN N(-1)
                                   ELSE Elem(s.index, N(1))]
        ELSE w

setBoundsSwapsFlags(s, startTime, stopTime) ==
    LET startInd == binarySearch(s.x, startTime, TRUE)
        stopInd == binarySearch(s.x, stopTime, FALSE)
        w == [s EXCEPT !.startInd = startInd, !.stopInd = stopInd]
        last == Len(s.index) - 1
    IN  IF s.hasFilter
        THEN IF Gt(N(startInd), ToNum(Elem(s.index, N(last))))
             THEN [w EXCEPT !.curFiltInd = N(last), !.nextInd = N(-1)]
             ELSE LET cur == binarySearch(s.index, N(startInd), FALSE)
                  IN  [w EXCEPT !.curFiltInd = N(cur),
                                !.nextInd = Elem(s.index, N(cur + 1))]
        ELSE w

setBoundsKeepsCursor(s, startTime, stopTime) ==
    LET startInd == binarySearch(s.x, startTime, FALSE)
        stopInd == binarySearch(s.x, stopTime, TRUE)
        w == [s EXCEPT !.startInd = startInd, !.stopInd = stopInd]
        cur == binarySearch(s.index, N(startInd), FALSE)
    IN  IF s.hasFilter /\ s.curFiltInd = Undefined
        THEN [w EXCEPT !.curFiltInd = N(cur), !.nextInd = Elem(s.index, N(cur + 1))]
        ELSE w
setBoundsFromZero(s, startTime, stopTime) ==
    LET startInd == binarySearch(s.x, startTime, FALSE)
        stopInd == binarySearch(s.x, stopTime, TRUE)
        w == [s EXCEPT !.startInd = startInd, !.stopInd = stopInd]
    IN  IF s.hasFilter
        THEN [w EXCEPT !.curFiltInd = N(0), !.nextInd = Elem(s.index, N(1))]
        ELSE w
setBounds(s, startTime, stopTime) ==
    LET startInd == binarySearch(s.x, startTime, FALSE)
        stopInd == binarySearch(s.x, stopTime, TRUE)
        w == [s EXCEPT !.startInd = startInd, !.stopInd = stopInd]
        last == Len(s.index) - 1
    IN  IF s.hasFilter
        THEN IF Gt(N(startInd), ToNum(Elem(s.index, N(last))))
             THEN [w EXCEPT !.curFiltInd = N(last), !.nextInd = N(-1)]
             ELSE LET cur == binarySearch(s.index, N(startInd), FALSE)
                  IN  [w EXCEPT !.curFiltInd = N(cur),
                                !.nextInd = Elem(s.index, N(cur + 1))]
        ELSE w

\* ind === this.filter.nextInd
updateFilterChanged(s, ind) == s.nextInd # NaN /\ s.nextInd = N(ind)

updateFilterStuck(s, ind) ==
    IF updateFilterChanged(s, ind)
    THEN [s EXCEPT !.curFiltInd = Add(ToNum(s.curFiltInd), N(1))]
    ELSE s
updateFilter(s, ind) ==
    IF updateFilterChanged(s, ind)
    THEN LET cur == Add(ToNum(s.curFiltInd), N(1))
         IN  [s EXCEPT !.curFiltInd = cur,
                       !.nextInd = IF Lt(cur, N(Len(s.index)))
                                   THEN Elem(s.index, Add(cur, N(1)))
                                   ELSE N(-1)]
    ELSE s

getColor(s) == IF s.hasFilter THEN ColorAt(s.colors, s.curFiltInd) ELSE "null"

\* this.y[i] (a flat series) or this.y[i][j] (a tuple-valued one)
YAt(s, i, j) ==
    IF i < 0 \/ i >= Len(s.y) THEN Undefined
    ELSE IF s.tuple THEN Elem(s.y[i + 1], N(j)) ELSE N(s.y[i + 1])

\* the body of both scanning loops: if (val < yMin) ... else if (val > yMax)
yScanMinOnly(mm, val) ==
    IF Lt(ToNum(val), ToNum(mm[1])) THEN <<val, mm[2]>> ELSE mm
yScan(mm, val) ==
    IF Lt(ToNum(val), ToNum(mm[1])) THEN <<val, mm[2]>>
    ELSE IF Gt(ToNum(val), ToNum(mm[2])) THEN <<mm[1], val>>
    ELSE mm

RECURSIVE yScanFrom(_, _, _, _, _)
yScanFrom(s, mm0, i, j, numElems) ==
    CHOOSE r \in {IF i > s.stopInd THEN mm
                  ELSE IF j >= numElems THEN yScanFrom(s, mm, i + 1, 0, numElems)
                  ELSE yScanFrom(s, yScan(mm, YAt(s, i, j)), i, j + 1, numElems) :
                    mm \in {mm0}} : TRUE

getYBounds(s) ==
    LET first == YAt(s, s.startInd, 0)
    IN  IF s.tuple /\ s.startInd >= 0 /\ s.startInd < Len(s.y)
        THEN yScanFrom(s, <<first, first>>, s.startInd, 0, Len(s.y[s.startInd + 1]))
        ELSE yScanFrom(s, <<first, first>>, s.startInd + 1, 0, 1)

----------------------------------------------------------------------------
(* DashGraph.Plot: construction *)

\* the defaults of the constructor's options
Width == 400
Height == 300
XLabelSize == 50
YLabelSize == 50
HeightBuffer == 20
MinTickPixels == 40

plotColors == <<"#0000AA", "#00AA00", "#AA0000", "#AAAA00", "#AA00AA", "#00AAAA">>

\* new DashGraph.Plot(node) followed by initialize(); the scales and the zoom
\* anchor are not set before the first render / pointer-down
Plot ==
    [width |-> Width, height |-> Height, xLabelSize |-> XLabelSize,
     yLabelSize |-> YLabelSize, heightBuffer |-> HeightBuffer,
     minTickPixels |-> MinTickPixels,
     colorInd |-> 0,
     zoom |-> [xMin |-> Null, xMax |-> Null, yMin |-> Null, yMax |-> Null],
     plotWidth |-> Width - XLabelSize, plotXStart |-> XLabelSize,
     plotHeight |-> Height - YLabelSize, plotYStart |-> 0,
     zooming |-> FALSE, xZooming |-> FALSE, yZooming |-> FALSE,
     rectZooming |-> FALSE,
     xZoomStart |-> Undefined, yZoomStart |-> Undefined,
     xScale |-> Undefined, xBias |-> Undefined,
     yScale |-> Undefined, yBias |-> Undefined]

----------------------------------------------------------------------------
(* DashGraph.Plot: scales *)

getXCanvasPos(p, x) == Add(Mul(ToNum(x), ToNum(p.xScale)), ToNum(p.xBias))
getXPixelPos(p, x) == Div(Sub(ToNum(x), ToNum(p.xBias)), ToNum(p.xScale))
getYCanvasPos(p, y) == Add(Mul(ToNum(y), ToNum(p.yScale)), ToNum(p.yBias))
getYPixelPos(p, y) == Div(Sub(ToNum(y), ToNum(p.yBias)), ToNum(p.yScale))

\* y0 + (x - x0) * (y1 - y0)/(x1-x0)
interpolate(x0, y0, x1, y1, x) ==
    Add(y0, Div(Mul(Sub(x, x0), Sub(y1, y0)), Sub(x1, x0)))

\* Plot.prototype.getColor: <<the colour, the new colorInd>>
plotGetColor(p) ==
    LET ci == IF p.colorInd = Len(plotColors) THEN 0 ELSE p.colorInd
    IN  <<plotColors[ci + 1], ci + 1>>

----------------------------------------------------------------------------
(* DashGraph.Plot.prototype.preprocess, for a plot with at least one series *)
(* (with none, this.data[0].resetBounds() throws).  The tick lists it also  *)
(* computes are not part of this state.                                     *)

\* the auto-fit branch's loop over the remaining series: mm is <<xMin, xMax>>.
\* The source reads data.x[this.startInd] and data.x[this.stopInd], where
\* this is the plot, which has neither field: both reads give undefined.
RECURSIVE xExtrema(_, _, _)
xExtrema(ds, mm0, i) ==
    CHOOSE r \in {IF i > Len(ds) THEN mm
                  ELSE LET d == ds[i]
                           lo == IF Gt(ToNum(mm[1]), ToNum(Elem(d.x, N(d.startInd))))
                                 THEN Undefined ELSE mm[1]
                           hi == IF Lt(ToNum(mm[2]), ToNum(Elem(d.x, N(d.stopInd))))
                                 THEN Undefined ELSE mm[2]
                       IN  xExtrema(ds, <<lo, hi>>, i + 1) :
                    mm \in {mm0}} : TRUE

\* the merge of the series' getYBounds() in the auto-fit branch
yMerge(mm, yLimits) ==
    IF mm[1] = Undefined THEN yLimits
    ELSE <<IF Gt(ToNum(mm[1]), ToNum(yLimits[1])) THEN yLimits[1] ELSE mm[1],
           IF Lt(ToNum(mm[2]), ToNum(yLimits[2])) THEN yLimits[2] ELSE mm[2]>>

RECURSIVE yExtrema(_, _, _)
yExtrema(ds, mm0, i) ==
    CHOOSE r \in {IF i > Len(ds) THEN mm
                  ELSE yExtrema(ds, yMerge(mm, lim), i + 1) :
                    mm \in {mm0},
                    lim \in {IF i > Len(ds) THEN mm0 ELSE getYBounds(ds[i])}} : TRUE

\* the series after the window step of preprocess
preprocessData(p, ds) ==
    IF p.zoom.xMin = Null
    THEN [i \in 1..Len(ds) |-> resetBounds(ds[i])]
    ELSE [i \in 1..Len(ds) |-> setBounds(ds[i], p.zoom.xMin, p.zoom.xMax)]

\* <<xMin, xMax>> of preprocess; ds are the series after the window step
preprocessXRange(p, ds) ==
    IF p.zoom.xMin = Null
    THEN xExtrema(ds, <<Elem(ds[1].x, N(ds[1].startInd)),
                        Elem(ds[1].x, N(ds[1].stopInd))>>, 2)
    ELSE <<p.zoom.xMin, p.zoom.xMax>>

preprocessXScale(p, ds) ==
    LET xr == preprocessXRange(p, ds)
        xScale == Div(N(p.plotWidth), Sub(ToNum(xr[2]), ToNum(xr[1])))
    IN  [p EXCEPT !.xScale = xScale,
                  !.xBias = Sub(N(p.plotXStart), Mul(xScale, ToNum(xr[1])))]

preprocessYScale(p, ds) ==
    IF p.zoom.yMin # Null
    THEN LET yScale == Div(N(p.plotHeight), Sub(ToNum(p.zoom.yMin), ToNum(p.zoom.yMax)))
         IN  [p EXCEPT !.yScale = yScale,
                       !.yBias = Sub(Norm(p.plotHeight, 2),
                                     Mul(Mul(yScale, Add(ToNum(p.zoom.yMax), ToNum(p.zoom.yMin))),
                                         Norm(1, 2)))]
    ELSE LET yr == yExtrema(ds, <<Undefined, Undefined>>, 1)
             yScale == Div(N(p.plotHeight - 2 * p.heightBuffer),
                           Sub(ToNum(yr[1]), ToNum(yr[2])))
         IN  [p EXCEPT !.yScale = yScale,
                       !.yBias = Sub(Norm(p.plotHeight, 2),
                                     Mul(Mul(yScale, Add(ToNum(yr[2]), ToNum(yr[1]))),
                                         Norm(1, 2)))]

\* preprocess as a whole: [plot, data]
preprocess(p, ds) ==
    CHOOSE r \in {[plot |-> preprocessYScale(px, ds1), data |-> ds1] :
                    ds1 \in {preprocessData(p, ds)},
                    px \in {preprocessXScale(p, preprocessData(p, ds))}} : TRUE

\* prerender: clears the canvases and the labels, resets the colour counter
prerender(p) == [p EXCEPT !.colorInd = 0]

----------------------------------------------------------------------------
(* The 2D drawing context, as far as renderData uses it.  pen is the        *)
(* current point of the path (undefined after beginPath), path the line     *)
(* segments of the current path, drawn the segments stroked so far, each    *)
(* with the stroke colour it was stroked in, calls every moveTo/lineTo.     *)
(* As the canvas does, moveTo and lineTo ignore a non-finite coordinate,    *)
(* lineTo on an empty path only sets the current point, and assigning a     *)
(* value that is no colour leaves strokeStyle as it was.                    *)

Canvas0 == [strokeStyle |-> "#999999", pen |-> Undefined, path |-> <<>>,
            drawn |-> <<>>, calls |-> <<>>]

beginPath(c) == [c EXCEPT !.pen = Undefined, !.path = <<>>]

setStrokeStyle(c, v) ==
    IF v \in {"undefined", "null"} THEN c ELSE [c EXCEPT !.strokeStyle = v]

\* tag is [k, j, i, chg, cur]: the series, slot and index being rendered,
\* whether updateFilter reported a change at i, and data.getColor() then
moveTo(c, x, y, tag) ==
    LET c1 == [c EXCEPT !.calls = Append(@, [op |-> "moveTo", x |-> x, y |-> y, tag |-> tag])]
    IN  IF IsFinite(x) /\ IsFinite(y) THEN [c1 EXCEPT !.pen = <<x, y>>] ELSE c1

lineTo(c, x, y, tag) ==
    LET c1 == [c EXCEPT !.calls = Append(@, [op |-> "lineTo", x |-> x, y |-> y, tag |-> tag])]
    IN  IF ~(IsFinite(x) /\ IsFinite(y)) THEN c1
        ELSE IF c.pen = Undefined THEN [c1 EXCEPT !.pen = <<x, y>>]
        ELSE [c1 EXCEPT !.pen = <<x, y>>,
                        !.path = Append(@, [from |-> c.pen, to |-> <<x, y>>, tag |-> tag])]

stroke(c) ==
    [c EXCEPT !.drawn = @ \o [n \in 1..Len(c.path) |->
                                 [from |-> c.path[n].from, to |-> c.path[n].to,
                                  tag |-> c.path[n].tag, color |-> c.strokeStyle]]]

----------------------------------------------------------------------------
(* DashGraph.Plot.prototype.renderData, as a machine over                   *)
(* m = [plot, data, r]: r holds the function's local variables, the drawing *)
(* context ctx and the position pc: "series" at the head of the loop over   *)
(* the series, "curve" at the head of the loop over the curve slots,        *)
(* "point" at the head of the loop over the window's indices.               *)

\* the locals on entry: var updateColor = false; k = 0
Render0 ==
    [pc |-> "series", k |-> 0, j |-> 0, lenData |-> 0, i |-> 0,
     xPixValLast |-> Undefined, yPixValLast |-> Undefined,
     yTooHigh |-> FALSE, yTooLow |-> FALSE, updateColor |-> FALSE,
     ctx |-> Canvas0]

\* getX / getY of the series: 'quick' truncates to an integer pixel
getX(p, d, i) ==
    LET v == getXCanvasPos(p, Elem(d.x, N(i)))
    IN  IF d.plotType = "quick" THEN OrZero(v) ELSE v
getY(p, d, i, j) ==
    LET v == getYCanvasPos(p, YAt(d, i, j))
    IN  IF d.plotType = "quick" THEN OrZero(v) ELSE v

\* the head of the loop over the series, up to the 'within the bounds' check
renderSeries(m) ==
    LET r == m.r
        p == m.plot
    IN  IF r.k >= Len(m.data) THEN [m EXCEPT !.r.pc = "done"]
        ELSE LET d == m.data[r.k + 1]
                 isArrData == d.tuple /\ d.startInd >= 0 /\ d.startInd < Len(d.y)
                 lenData == IF isArrData THEN Len(d.y[d.startInd + 1]) ELSE 1
             IN  IF \/ Gt(ToNum(Elem(d.x, N(0))), ToNum(p.zoom.xMax))
                    \/ Lt(ToNum(Elem(d.x, N(Len(d.x) - 1))), ToNum(p.zoom.xMin))
                 THEN [m EXCEPT !.r.lenData = lenData, !.r.k = @ + 1]
                 ELSE [m EXCEPT !.r.lenData = lenData, !.r.j = 0, !.r.pc = "curve"]

\* the head of the loop over the curve slots, up to the first moveTo
renderCurve(m) ==
    LET r == m.r
        p == m.plot
        d == m.data[r.k + 1]
    IN  IF r.lenData = 0 THEN [m EXCEPT !.r.k = @ + 1, !.r.pc = "series"]
        ELSE LET col == IF d.hasColor THEN <<getColor(d), p.colorInd>> ELSE plotGetColor(p)
                 c1 == setStrokeStyle(beginPath(r.ctx), col[1])
                 x0 == getX(p, d, d.startInd)
                 y0 == getY(p, d, d.startInd, r.j)
                 left == Lt(x0, N(p.plotXStart))
                 yL == IF left
                       THEN interpolate(x0, y0, getX(p, d, d.startInd + 1),
                                        getY(p, d, d.startInd + 1, r.j), N(p.plotXStart))
                       ELSE y0
                 xL == IF left THEN N(p.plotXStart) ELSE x0
                 tag == [k |-> r.k, j |-> r.j, i |-> d.startInd, chg |-> FALSE,
                         cur |-> getColor(d)]
             IN  [m EXCEPT !.plot.colorInd = col[2],
                           !.r = [r EXCEPT !.lenData = @ - 1,
                                           !.xPixValLast = xL, !.yPixValLast = yL,
                                           !.yTooHigh = FALSE, !.yTooLow = FALSE,
                                           !.ctx = moveTo(c1, xL, yL, tag),
                                           !.i = d.startInd + 1, !.pc = "point"]]

\* the end of a curve: this.ctx.stroke(); j += 1
renderCurveEnd(m, c) ==
    [m EXCEPT !.r.ctx = stroke(c), !.r.j = @ + 1, !.r.pc = "curve"]

\* one iteration of the loop over the window's indices
renderPoint(m) ==
    LET r == m.r
        p == m.plot
        d == m.data[r.k + 1]
        i == r.i
    IN  IF i > d.stopInd THEN renderCurveEnd(m, r.ctx)
        ELSE
        LET xPixVal == getX(p, d, i)
            yPixVal == getY(p, d, i, r.j)
            chg == d.hasFilter /\ updateFilterChanged(d, i)
            d1 == IF d.hasFilter THEN updateFilter(d, i) ELSE d
            upd == r.updateColor \/ chg
            tag == [k |-> r.k, j |-> r.j, i |-> i, chg |-> chg, cur |-> getColor(d1)]
            m1 == [m EXCEPT !.data[r.k + 1] = d1, !.r.updateColor = upd]
            xL == r.xPixValLast
            yL == r.yPixValLast
        IN  IF /\ Lt(Abs(Sub(xPixVal, xL)), Norm(1, 10))
               /\ Lt(Abs(Sub(yPixVal, yL)), Norm(1, 10))
            THEN \* coalesced: continue
                 [m1 EXCEPT !.r.i = i + 1]
            ELSE IF Gt(xPixVal, N(p.width))
            THEN \* beyond the right edge: interpolate, draw, break
                 LET yEdge == interpolate(xL, yL, xPixVal, yPixVal, N(p.width))
                 IN  renderCurveEnd(m1, lineTo(r.ctx, N(p.width), yEdge, tag))
            ELSE IF Lt(yPixVal, N(p.plotYStart))
            THEN \* above the plot area
                 LET xC == interpolate(yL, xL, yPixVal, xPixVal, N(p.plotYStart))
                     c1 == IF ~r.yTooHigh
                           THEN lineTo(r.ctx, xC, N(p.plotYStart), tag) ELSE r.ctx
                 IN  [m1 EXCEPT !.r.yTooHigh = TRUE, !.r.ctx = c1,
                                !.r.xPixValLast = xPixVal, !.r.yPixValLast = yPixVal,
                                !.r.i = i + 1]
            ELSE IF Gt(yPixVal, N(p.plotHeight))
            THEN \* below the plot area
                 LET xC == interpolate(yL, xL, yPixVal, xPixVal, N(p.plotHeight))
                     c1 == IF ~r.yTooLow
                           THEN lineTo(r.ctx, xC, N(p.plotHeight), tag) ELSE r.ctx
                 IN  [m1 EXCEPT !.r.yTooLow = TRUE, !.r.ctx = c1,
                                !.r.xPixValLast = xPixVal, !.r.yPixValLast = yPixVal,
                                !.r.i = i + 1]
            ELSE \* inside: re-enter if the prior point was outside, then draw
                 LET edge == IF r.yTooHigh THEN N(p.plotYStart) ELSE N(p.plotHeight)
                     c1 == IF r.yTooHigh \/ r.yTooLow
                           THEN moveTo(r.ctx,
                                       interpolate(yL, xL, yPixVal, xPixVal, edge),
                                       edge, tag)
                           ELSE r.ctx
                     c2 == lineTo(c1, xPixVal, yPixVal, tag)
                     c3 == IF upd
                           THEN moveTo(setStrokeStyle(beginPath(stroke(c2)), getColor(d1)),
                                       xPixVal, yPixVal, tag)
                           ELSE c2
                 IN  [m1 EXCEPT !.r.yTooHigh = FALSE,
                                !.r.yTooLow = IF r.yTooHigh THEN r.yTooLow ELSE FALSE,
                                !.r.updateColor = FALSE, !.r.ctx = c3,
                                !.r.xPixValLast = xPixVal, !.r.yPixValLast = yPixVal,
                                !.r.i = i + 1]

renderStep(m) ==
    CASE m.r.pc = "series" -> renderSeries(m)
      [] m.r.pc = "curve" -> renderCurve(m)
      [] m.r.pc = "point" -> renderPoint(m)
      [] OTHER -> m

RECURSIVE renderRun(_)
renderRun(m0) ==
    CHOOSE r \in {IF m.r.pc = "done" THEN m ELSE renderRun(renderStep(m)) :
                    m \in {m0}} : TRUE

\* renderData as a whole
renderData(p, ds) == renderRun([plot |-> p, data |-> ds, r |-> Render0])

\* Plot.prototype.render: preprocess, prerender, the axes and labels (which
\* only draw), renderData.  The result is [plot, data, r].
render(p, ds) ==
    CHOOSE r \in {renderData(prerender(pp.plot), pp.data) :
                    pp \in {preprocess(p, ds)}} : TRUE

----------------------------------------------------------------------------
(* Values of the variables a specification does not use *)

BsIdle == [a |-> <<>>, x |-> N(0), upper |-> FALSE, lo |-> 0, hi |-> -1,
           pc |-> "idle", res |-> Undefined, iters |-> 0]
WalkIdle == [pc |-> "idle", i |-> 0, changes |-> {}, origin |-> "ctor",
             startTime |-> Undefined, stopTime |-> Undefined]
RsIdle == [pc |-> "idle"]
\* ev records the last event delivered to the plot: its type, the pointer
\* position it carried, whether its handler rendered, and history: the number
\* of ranges committed so far, the axis first locked in the current gesture,
\* and whether a locked gesture was cancelled by pointer-leave with no
\* pointer-down since
EvNone == [type |-> "none", x |-> 0, y |-> 0, rendered |-> FALSE, commits |-> 0,
           firstLock |-> "none", afterOut |-> "no"]
\* call records the last direct call of a function of the library and what
\* it returned
CallNone == [op |-> "none"]

----------------------------------------------------------------------------
(* The binary search, one loop iteration at a time *)

RECURSIVE SortedSeq(_)
SortedSeq(S) ==
    IF S = {} THEN <<>>
    ELSE LET m == CHOOSE v \in S : \A w \in S : v <= w
         IN  <<m>> \o SortedSeq(S \ {m})

\* the strictly increasing arrays over 0..MaxVal of at most MaxLen elements
IncArrays == {SortedSeq(S) : S \in {T \in SUBSET (0..MaxVal) : Cardinality(T) <= MaxLen}}
Targets == {N(t) : t \in -1..(MaxVal + 1)} \cup {NaN}

InitSearch ==
    /\ \E a \in IncArrays, x \in Targets, upper \in BOOLEAN :
          bs = [a |-> a, x |-> x, upper |-> upper, lo |-> 0, hi |-> Len(a) - 1,
                pc |-> "loop", res |-> Undefined, iters |-> 0]
    /\ data = <<>>
    /\ plot = Plot
    /\ rs = RsIdle
    /\ walk = WalkIdle
    /\ ev = EvNone
    /\ call = CallNone

\* while (hi - lo > 1) { ... }
BsIter ==
    /\ bs.pc = "loop"
    /\ bs.hi - bs.lo > 1
    /\ LET lh == bsStep(bs.a, bs.x, <<bs.lo, bs.hi>>)
       IN  bs' = [bs EXCEPT !.lo = lh[1], !.hi = lh[2], !.iters = @ + 1]
    /\ UNCHANGED <<data, plot, rs, walk, ev, call>>

\* if (upper) return hi; else return lo;
BsDone ==
    /\ bs.pc = "loop"
    /\ ~(bs.hi - bs.lo > 1)
    /\ bs' = [bs EXCEPT !.pc = "done",
                        !.res = N(bsReturn(<<bs.lo, bs.hi>>, bs.upper))]
    /\ UNCHANGED <<data, plot, rs, walk, ev, call>>

NextSearch == BsIter \/ BsDone

SpecSearch == InitSearch /\ [][NextSearch]_vars

\* the largest index i of a (0-based) with a[i] <= x; defined when a[0] <= x
LargestLe(a, x) ==
    CHOOSE i \in 0..(Len(a) - 1) :
        /\ Le(N(a[i + 1]), x)
        /\ \A j \in (i + 1)..(Len(a) - 1) : ~Le(N(a[j + 1]), x)

\* C1: for a strictly increasing array of at least 3 elements and a target
\* not below the first element, the lower search returns the largest index i
\* with array[i] <= target, also for targets at or beyond the last element.
C1_LowerIsLargestLe ==
    (bs.pc = "done" /\ ~bs.upper /\ Len(bs.a) >= 3 /\ Le(N(bs.a[1]), bs.x))
        => bs.res = N(LargestLe(bs.a, bs.x))

\* C17: when the search of a non-empty strictly increasing array returns, the
\* index it returns for upper = false is at most the index it returns for
\* upper = true, both are indices of the array (0 .. length-1), and the value
\* returned is the one of the two that the flag selects.
C17_LowerLeUpperValidIndices ==
    (bs.pc = "done" /\ Len(bs.a) >= 1)
        => LET lower == bsReturn(<<bs.lo, bs.hi>>, FALSE)
               hiRet == bsReturn(<<bs.lo, bs.hi>>, TRUE)
           IN  /\ lower <= hiRet
               /\ lower \in 0..(Len(bs.a) - 1)
               /\ hiRet \in 0..(Len(bs.a) - 1)
               /\ bs.res = N(IF bs.upper THEN hiRet ELSE lower)
               /\ bs.res = N(binarySearch(bs.a, bs.x, bs.upper))

\* a search of an array of at least 3 elements has returned after at least one
\* iteration, with different lower and upper indices
C17_Witness ==
    /\ bs.pc = "done" /\ Len(bs.a) >= 3 /\ bs.iters >= 1
    /\ bs.lo < bs.hi

----------------------------------------------------------------------------
(* One series: its window and filter cursor under resetBounds, setBounds    *)
(* and the updateFilter calls of a render pass.  The walk is the index loop *)
(* of renderData, for (i = startInd+1; i <= stopInd; i++) updateFilter(i),  *)
(* without the drawing.                                                     *)

\* x = 0, 10, 20, ... so that a bound can fall on, between and outside points
XOfLen(n) == [i \in 1..n |-> 10 * (i - 1)]
ZerosOfLen(n) == [i \in 1..n |-> 0]
ColorNames == <<"c0", "c1", "c2", "c3", "c4", "c5", "c6">>

\* a colour filter: boundary indices strictly increasing, valid indices of
\* the series, the first segment starting at index 0
FiltersOfLen(n) ==
    {[plotType |-> "", hasFilter |-> TRUE, index |-> SortedSeq(S \cup {0}),
      colors |-> SubSeq(ColorNames, 1, Cardinality(S \cup {0}))] :
        S \in SUBSET (1..(n - 1))}
NoFilter == [plotType |-> "", hasFilter |-> FALSE, index |-> <<>>, colors |-> <<>>]

BoundsOfLen(n) == {Norm(5 * k, 1) : k \in -1..(2 * n - 1)}

InitData ==
    /\ \E n \in 1..MaxPts : \E o \in FiltersOfLen(n) \cup {NoFilter} :
          data = <<Data(XOfLen(n), ZerosOfLen(n), FALSE, o)>>
    /\ walk = WalkIdle
    /\ bs = BsIdle
    /\ plot = Plot
    /\ rs = RsIdle
    /\ ev = EvNone
    /\ call = CallNone

DataResetBounds ==
    /\ walk.pc # "walking"
    /\ data' = <<resetBounds(data[1])>>
    /\ walk' = [WalkIdle EXCEPT !.origin = "reset"]
    /\ UNCHANGED <<bs, plot, rs, ev, call>>

DataSetBounds ==
    /\ walk.pc # "walking"
    /\ \E startTime \in BoundsOfLen(Len(data[1].x)),
          stopTime \in BoundsOfLen(Len(data[1].x)) :
          /\ data' = <<setBounds(data[1], startTime, stopTime)>>
          /\ walk' = [WalkIdle EXCEPT !.origin = "set", !.startTime = startTime,
                                      !.stopTime = stopTime]
    /\ UNCHANGED <<bs, plot, rs, ev, call>>

\* i = data.startInd + 1
WalkBegin ==
    /\ walk.pc = "idle"
    /\ walk.origin # "ctor"
    /\ walk' = [walk EXCEPT !.pc = "walking", !.i = data[1].startInd + 1]
    /\ UNCHANGED <<data, bs, plot, rs, ev, call>>

\* if (data.hasFilter) { if (data.updateFilter(i)) ... }; i++
WalkStep ==
    /\ walk.pc = "walking"
    /\ walk.i <= data[1].stopInd
    /\ data' = <<IF data[1].hasFilter THEN updateFilter(data[1], walk.i) ELSE data[1]>>
    /\ walk' = [walk EXCEPT !.i = @ + 1,
                            !.changes = IF data[1].hasFilter
                                           /\ updateFilterChanged(data[1], walk.i)
                                        THEN @ \cup {walk.i} ELSE @]
    /\ UNCHANGED <<bs, plot, rs, ev, call>>

WalkEnd ==
    /\ walk.pc = "walking"
    /\ walk.i > data[1].stopInd
    /\ walk' = [walk EXCEPT !.pc = "done"]
    /\ UNCHANGED <<data, bs, plot, rs, ev, call>>

NextData == DataResetBounds \/ DataSetBounds \/ WalkBegin \/ WalkStep \/ WalkEnd

SpecData == InitData /\ [][NextData]_vars

\* the segment that contains index i: the largest k with index[k] <= i
SegmentOf(s, i) == LargestLe(s.index, N(i))

\* C2: after setBounds on a series with a colour filter, the cursor's current
\* segment is the segment containing startInd (the largest k with
\* filter.index[k] <= startInd), for every startInd the search produces.
C2_CursorOnStartSegment ==
    (walk.origin = "set" /\ walk.pc = "idle" /\ data[1].hasFilter)
        => data[1].curFiltInd = N(SegmentOf(data[1], data[1].startInd))

\* C3 (as stated): boundaries [0,2,4] on a 5-point series, window starting at
\* index 3 after setBounds: walking the window reports 0 segment changes.
IsC3Series ==
    /\ Len(data[1].x) = 5
    /\ data[1].hasFilter
    /\ data[1].index = <<0, 2, 4>>

C3_NoChangesFromIndex3 ==
    (IsC3Series /\ walk.origin = "set" /\ walk.pc = "done" /\ data[1].startInd = 3)
        => walk.changes = {}

\* C3 (amended): in that configuration, for setBounds(start, stop) with
\* start <= stop, the window is 3..4 and walking it reports exactly one
\* segment change, at index 4 (the start of the third segment); the change
\* at index 2 is not reported again.
C3_OneChangeAtIndex4 ==
    (IsC3Series /\ walk.origin = "set" /\ walk.pc = "done" /\ data[1].startInd = 3
       /\ Le(walk.startTime, walk.stopTime))
        => (data[1].stopInd = 4 /\ walk.changes = {4} /\ getColor(data[1]) = "c2")

C3_Witness ==
    /\ IsC3Series /\ walk.origin = "set" /\ walk.pc = "done" /\ data[1].startInd = 3
    /\ Le(walk.startTime, walk.stopTime)
    /\ walk.changes = {4}

WindowSetInOrder ==
    \/ walk.origin \in {"ctor", "reset"}
    \/ walk.origin = "set" /\ Le(walk.startTime, walk.stopTime)

\* v lies within [x[0], x[last]] of the series
WithinSeries(s, v) == Le(N(s.x[1]), v) /\ Le(v, N(s.x[Len(s.x)]))

\* C18: after the constructor, resetBounds, or a setBounds(start, stop) call
\* with start <= stop on a non-empty series, 0 <= startInd <= stopInd <=
\* x.length - 1; and after such a setBounds call with start and stop both
\* within [x[0], x[last]], x[startInd] <= start and x[stopInd] >= stop.
C18_WindowOrderedAndCovers ==
    LET s == data[1]
    IN  (Len(s.x) >= 1 /\ WindowSetInOrder)
            => /\ 0 <= s.startInd
               /\ s.startInd <= s.stopInd
               /\ s.stopInd <= Len(s.x) - 1
               /\ (walk.origin = "set" /\ WithinSeries(s, walk.startTime)
                                       /\ WithinSeries(s, walk.stopTime))
                     => /\ Le(N(s.x[s.startInd + 1]), walk.startTime)
                        /\ Ge(N(s.x[s.stopInd + 1]), walk.stopTime)

\* setBounds(15, 25) has returned on a series of at least 5 points: both bounds
\* fall between points inside the series, and the window is strictly inside
C18_Witness ==
    /\ walk.origin = "set" /\ walk.pc = "idle"
    /\ walk.startTime = N(15) /\ walk.stopTime = N(25)
    /\ Len(data[1].x) >= 5
    /\ data[1].startInd = 1 /\ data[1].stopInd = 3

----------------------------------------------------------------------------
(* One render pass, renderData one loop head at a time *)

\* x values: 0 and 1 are less than a tenth of a pixel apart when the x range
\* reaches 5000 or 10000
RenderXVals == {0, 1, 5000, 10000}
RenderYVals == {-10, 0, 10}

RenderSeriesSet ==
    {Data(SortedSeq(S), y, FALSE, o) :
        S \in {T \in SUBSET RenderXVals : Cardinality(T) \in 2..RenderMaxPts},
        y \in UNION {[1..n -> RenderYVals] : n \in 2..RenderMaxPts},
        o \in UNION {FiltersOfLen(n) : n \in 2..RenderMaxPts} \cup {NoFilter}}

WellFormedSeries(d) ==
    /\ Len(d.x) = Len(d.y)
    /\ \A n \in 1..Len(d.index) : d.index[n] < Len(d.x)

\* the polyline of spec section 8: x = [0,1,2,3,4], y = [0,10,-10,10,0]
ZigZag == Data(<<0, 1, 2, 3, 4>>, <<0, 10, -10, 10, 0>>, FALSE, NoFilter)

\* pinned ranges: x to [2500, 7500], y to [0, 8]
ZoomXChoices == {<<Null, Null>>, <<N(2500), N(7500)>>}
ZoomYChoices == {<<Null, Null>>, <<N(0), N(8)>>}

InitRender ==
    /\ \E d \in {e \in RenderSeriesSet : WellFormedSeries(e)} \cup {ZigZag} :
          data = <<d>>
    /\ \E zx \in ZoomXChoices, zy \in ZoomYChoices :
          plot = [Plot EXCEPT !.zoom = [xMin |-> zx[1], xMax |-> zx[2],
                                        yMin |-> zy[1], yMax |-> zy[2]]]
    /\ rs = RsIdle
    /\ bs = BsIdle
    /\ walk = WalkIdle
    /\ ev = EvNone
    /\ call = CallNone

\* render() up to the call of renderData
RsRender ==
    /\ rs.pc = "idle"
    /\ LET pp == preprocess(plot, data)
       IN  /\ plot' = prerender(pp.plot)
           /\ data' = pp.data
    /\ rs' = Render0
    /\ UNCHANGED <<bs, walk, ev, call>>

RsApply(m) ==
    /\ plot' = m.plot
    /\ data' = m.data
    /\ rs' = m.r
    /\ UNCHANGED <<bs, walk, ev, call>>

RsSeries ==
    /\ rs.pc = "series"
    /\ RsApply(renderSeries([plot |-> plot, data |-> data, r |-> rs]))

RsCurve ==
    /\ rs.pc = "curve"
    /\ RsApply(renderCurve([plot |-> plot, data |-> data, r |-> rs]))

RsPoint ==
    /\ rs.pc = "point"
    /\ RsApply(renderPoint([plot |-> plot, data |-> data, r |-> rs]))

NextRender == RsRender \/ RsSeries \/ RsCurve \/ RsPoint

SpecRender == InitRender /\ [][NextRender]_vars

\* the line segments stroked so far in this pass
Drawn == IF rs.pc = "idle" THEN <<>> ELSE rs.ctx.drawn

\* C5: during renderData every line segment drawn after an index at which
\* updateFilter reported a segment change carries the new segment's colour:
\* a stroked segment that was added at an index which did not itself report a
\* change has the colour getColor() had when it was added.  Stated for the
\* first curve of the pass.
C5_LinesAfterBoundaryCarryNewColor ==
    \A n \in 1..Len(Drawn) :
        LET g == Drawn[n]
        IN  (g.tag.k = 0 /\ g.tag.j = 0 /\ data[1].hasFilter /\ ~g.tag.chg)
                => g.color = g.tag.cur

EqNum(a, b) == Le(a, b) /\ Le(b, a)
Between(v, a, b) == (Le(a, v) /\ Le(v, b)) \/ (Le(b, v) /\ Le(v, a))

\* q lies on the straight piece from A to B
OnPiece(q, A, B) ==
    /\ Between(q[1], A[1], B[1])
    /\ Between(q[2], A[2], B[2])
    /\ EqNum(Mul(Sub(B[1], A[1]), Sub(q[2], A[2])),
             Mul(Sub(B[2], A[2]), Sub(q[1], A[1])))

\* the pixel position of point a of curve j of series d
PixelOf(d, a, j) == <<getX(plot, d, a), getY(plot, d, a, j)>>

\* no two consecutive points of the series fall within a tenth of a pixel
NoCoalescing(d) ==
    \A a \in 0..(Len(d.x) - 2) :
        ~Lt(Abs(Sub(getX(plot, d, a + 1), getX(plot, d, a))), Norm(1, 10))

\* the first point of the series lies inside the plot area
FirstInside(d) ==
    LET q == PixelOf(d, 0, 0)
    IN  /\ Le(N(plot.plotXStart), q[1]) /\ Le(q[1], N(plot.width))
        /\ Le(N(plot.plotYStart), q[2]) /\ Le(q[2], N(plot.plotHeight))

\* C6: when the polyline moves between above the top and below the bottom of
\* the plot area, every line renderData draws joins two points of one
\* straight piece between consecutive data points (so no line joins two
\* different pieces, and every boundary point lies between the two data
\* points it was interpolated from).  Stated for the first curve of a pass
\* with the x range auto-fitted, for a series that starts inside the plot
\* area and whose points are not coalesced.
C6_LinesStayOnOnePiece ==
    (rs.pc # "idle" /\ plot.zoom.xMin = Null
       /\ FirstInside(data[1]) /\ NoCoalescing(data[1]))
        => \A n \in 1..Len(Drawn) :
              LET g == Drawn[n]
                  d == data[g.tag.k + 1]
              IN  \E a \in 0..(Len(d.x) - 2) :
                     /\ OnPiece(g.from, PixelOf(d, a, g.tag.j), PixelOf(d, a + 1, g.tag.j))
                     /\ OnPiece(g.to, PixelOf(d, a, g.tag.j), PixelOf(d, a + 1, g.tag.j))

\* series k (1-based) was begun in this pass: renderData reached its moveTo
Begun(k) == \E n \in 1..Len(rs.ctx.calls) : rs.ctx.calls[n].tag.k = k - 1

\* the x extent of series d lies entirely outside the pinned x range
OutsideXRange(d) ==
    /\ plot.zoom.xMin # Null
    /\ plot.zoom.xMax # Null
    /\ \/ Gt(N(d.x[1]), plot.zoom.xMax)
       \/ Lt(N(d.x[Len(d.x)]), plot.zoom.xMin)

\* C11: at the end of a render pass the series renderData skipped are exactly
\* those whose x extent lies entirely outside the pinned x range; with no x
\* range pinned every series was drawn.
C11_SkipsOnlyOutsideSeries ==
    rs.pc = "done"
        => \A k \in 1..Len(data) : Begun(k) <=> ~OutsideXRange(data[k])

----------------------------------------------------------------------------
(* DashGraph.Plot: the event handlers.  Each takes the plot p, the series   *)
(* ds and the pointer position the event carries (eventToCanvasX/Y of the   *)
(* event, which is host glue) and gives [plot, data, rendered], where       *)
(* rendered tells whether the handler called render().                      *)

onmousedown(p, ds, x, y) ==
    [plot |-> [p EXCEPT !.xZoomStart = N(x), !.yZoomStart = N(y), !.zooming = TRUE],
     data |-> ds, rendered |-> FALSE]

clearZoom(p) ==
    [p EXCEPT !.zoom = [xMin |-> Null, xMax |-> Null, yMin |-> Null, yMax |-> Null]]

\* this.render() inside a handler
rendered(p, ds) ==
    CHOOSE r \in {[plot |-> m.plot, data |-> m.data, rendered |-> TRUE] :
                    m \in {render(p, ds)}} : TRUE

\* a handler path that does not render
unrendered(p, ds) == [plot |-> p, data |-> ds, rendered |-> FALSE]

onmouseupXClearsY(p, xPos) ==
    IF Gt(N(xPos), ToNum(p.xZoomStart))
    THEN [p EXCEPT !.zoom.xMin = getXPixelPos(p, p.xZoomStart),
                   !.zoom.xMax = getXPixelPos(p, N(xPos)),
                   !.zoom.yMin = Null, !.zoom.yMax = Null]
    ELSE IF Lt(N(xPos), ToNum(p.xZoomStart))
    THEN [p EXCEPT !.zoom.xMin = getXPixelPos(p, N(xPos)),
                   !.zoom.xMax = getXPixelPos(p, p.xZoomStart),
                   !.zoom.yMin = Null, !.zoom.yMax = Null]
    ELSE p

onmouseupX(p, xPos) ==
    IF Gt(N(xPos), ToNum(p.xZoomStart))
    THEN [p EXCEPT !.zoom.xMin = getXPixelPos(p, p.xZoomStart),
                   !.zoom.xMax = getXPixelPos(p, N(xPos))]
    ELSE IF Lt(N(xPos), ToNum(p.xZoomStart))
    THEN [p EXCEPT !.zoom.xMin = getXPixelPos(p, N(xPos)),
                   !.zoom.xMax = getXPixelPos(p, p.xZoomStart)]
    ELSE p

onmouseupY(p, yPos) ==
    IF Gt(N(yPos), ToNum(p.yZoomStart))
    THEN [p EXCEPT !.zoom.yMax = getYPixelPos(p, p.yZoomStart),
                   !.zoom.yMin = getYPixelPos(p, N(yPos))]
    ELSE IF Lt(N(yPos), ToNum(p.yZoomStart))
    THEN [p EXCEPT !.zoom.yMax = getYPixelPos(p, N(yPos)),
                   !.zoom.yMin = getYPixelPos(p, p.yZoomStart)]
    ELSE p

onmouseupKeepsAxis(p, ds, x, y) ==
    IF ~p.zooming THEN unrendered(p, ds)
    ELSE LET p1 == [p EXCEPT !.zooming = FALSE]
         IN  IF p.xZooming
             THEN rendered(onmouseupX(p1, x), ds)
             ELSE IF p.yZooming
             THEN rendered(onmouseupY(p1, y), ds)
             ELSE unrendered(p1, ds)

onmouseup(p, ds, x, y) ==
    IF ~p.zooming THEN unrendered(p, ds)
    ELSE LET p1 == [p EXCEPT !.zooming = FALSE]
         IN  IF p.xZooming
             THEN rendered(onmouseupX([p1 EXCEPT !.xZooming = FALSE], x), ds)
             ELSE IF p.yZooming
             THEN rendered(onmouseupY([p1 EXCEPT !.yZooming = FALSE], y), ds)
             ELSE unrendered(p1, ds)

\* the drag distances of a pointer position from the anchor
xDist(p, x) == Abs(Sub(N(x), ToNum(p.xZoomStart)))
yDist(p, y) == Abs(Sub(N(y), ToNum(p.yZoomStart)))

onmousemoveSticky(p, ds, x, y) ==
    IF ~p.zooming \/ p.xZooming \/ p.yZooming THEN unrendered(p, ds)
    ELSE IF Gt(xDist(p, x), yDist(p, y)) /\ Gt(xDist(p, x), N(1))
    THEN unrendered([p EXCEPT !.xZooming = TRUE, !.yZooming = FALSE], ds)
    ELSE IF Gt(yDist(p, y), xDist(p, x)) /\ Gt(yDist(p, y), N(1))
    THEN unrendered([p EXCEPT !.xZooming = FALSE, !.yZooming = TRUE], ds)
    ELSE unrendered(p, ds)
onmousemove(p, ds, x, y) ==
    IF ~p.zooming THEN unrendered(p, ds)
    ELSE IF Gt(xDist(p, x), yDist(p, y)) /\ Gt(xDist(p, x), N(1))
    THEN unrendered([p EXCEPT !.xZooming = TRUE, !.yZooming = FALSE], ds)
    ELSE IF Gt(yDist(p, y), xDist(p, x)) /\ Gt(yDist(p, y), N(1))
    THEN unrendered([p EXCEPT !.xZooming = FALSE, !.yZooming = TRUE], ds)
    ELSE unrendered(p, ds)

ondblclickKeepsX(p, ds) ==
    rendered([p EXCEPT !.zoom.yMin = Null, !.zoom.yMax = Null], ds)
ondblclick(p, ds) == rendered(clearZoom(p), ds)

onmouseoutKeepsLock(p, ds) ==
    unrendered([p EXCEPT !.zooming = FALSE, !.rectZooming = FALSE], ds)
onmouseout(p, ds) ==
    unrendered([p EXCEPT !.zooming = FALSE, !.xZooming = FALSE, !.yZooming = FALSE,
                         !.rectZooming = FALSE], ds)

----------------------------------------------------------------------------
(* A plot with its series added, under update() and pointer events.  ev    *)
(* records the last event: its type and position, whether its handler      *)
(* rendered, the number of zooms committed so far, the axis first locked   *)
(* in the current gesture, and whether a pointer-leave happened since the  *)
(* last pointer-down ("locked" when it cancelled a locked drag).           *)

\* pointer positions, in canvas pixels
PixXs == {50, 120}
PixYs == {60, 61, 130}

\* a 5-point series with a colour filter, a 2-point series whose y values
\* are all equal, and a series that starts left of the first
SeriesA == Data(<<0, 1, 2, 3, 4>>, <<1, 3, 2, 5, 4>>, FALSE,
                [plotType |-> "", hasFilter |-> TRUE, index |-> <<0, 2, 4>>,
                 colors |-> <<"c0", "c1", "c2">>])
SeriesFlat == Data(<<0, 1>>, <<1, 1>>, FALSE, NoFilter)
SeriesLeft == Data(<<-1, 2, 5>>, <<0, 2, 1>>, FALSE, NoFilter)

PlotDataChoices == {<<SeriesA>>, <<SeriesFlat>>, <<SeriesA, SeriesLeft>>}

InitZoom ==
    /\ data \in PlotDataChoices
    /\ plot = Plot
    /\ ev = EvNone
    /\ call = CallNone
    /\ bs = BsIdle
    /\ rs = RsIdle
    /\ walk = WalkIdle

Locked(p) == IF p.xZooming THEN "x" ELSE IF p.yZooming THEN "y" ELSE "none"

ZoomApply(res) ==
    /\ plot' = res.plot
    /\ data' = res.data
    /\ UNCHANGED <<bs, rs, walk, call>>

\* plot.update()
Update ==
    \E res \in {rendered(plot, data)} :
        /\ ZoomApply(res)
        /\ ev' = [ev EXCEPT !.type = "update", !.x = 0, !.y = 0,
                            !.rendered = res.rendered]

MouseDown ==
    \E x \in PixXs, y \in PixYs :
        \E res \in {onmousedown(plot, data, x, y)} :
            /\ ZoomApply(res)
            /\ ev' = [ev EXCEPT !.type = "down", !.x = x, !.y = y,
                                !.rendered = res.rendered,
                                !.firstLock = Locked(plot), !.afterOut = "no"]

MouseMove ==
    \E x \in PixXs, y \in PixYs :
        \E res \in {onmousemove(plot, data, x, y)} :
            /\ ZoomApply(res)
            /\ ev' = [ev EXCEPT !.type = "move", !.x = x, !.y = y,
                                !.rendered = res.rendered,
                                !.firstLock = IF @ = "none" THEN Locked(res.plot) ELSE @]

\* a pointer-up that commits is taken while fewer than MaxCommits were
MouseUp ==
    \E x \in PixXs, y \in PixYs :
        /\ (plot.zooming /\ Locked(plot) # "none") => ev.commits < MaxCommits
        /\ \E res \in {onmouseup(plot, data, x, y)} :
            /\ ZoomApply(res)
            /\ ev' = [ev EXCEPT !.type = "up", !.x = x, !.y = y,
                                !.rendered = res.rendered,
                                !.commits = IF res.rendered THEN @ + 1 ELSE @,
                                !.firstLock = IF plot.zooming THEN "none" ELSE @]

DblClick ==
    \E res \in {ondblclick(plot, data)} :
        /\ ZoomApply(res)
        /\ ev' = [ev EXCEPT !.type = "dblclick", !.x = 0, !.y = 0,
                            !.rendered = res.rendered]

MouseOut ==
    \E res \in {onmouseout(plot, data)} :
        /\ ZoomApply(res)
        /\ ev' = [ev EXCEPT !.type = "out", !.x = 0, !.y = 0,
                            !.rendered = res.rendered,
                            !.firstLock = "none",
                            !.afterOut = IF @ = "locked" \/ (plot.zooming /\ Locked(plot) # "none")
                                         THEN "locked" ELSE "idle"]

NextZoom == Update \/ MouseDown \/ MouseMove \/ MouseUp \/ DblClick \/ MouseOut

SpecZoom == InitZoom /\ [][NextZoom]_vars

ZoomOf(p) == <<p.zoom.xMin, p.zoom.xMax, p.zoom.yMin, p.zoom.yMax>>
MinInt(a, b) == IF a < b THEN a ELSE b
MaxInt(a, b) == IF a < b THEN b ELSE a

\* C7: a completed drag locked to one axis, released at a pixel other than
\* its anchor, after at least one render, commits the values of the anchor
\* and release pixels under the scale of the last render, low to high, with
\* min < max, and re-renders.
C7_DragCommitsOrderedRange ==
    [][ /\ (ev'.type = "up" /\ plot.zooming /\ Locked(plot) = "x"
              /\ plot.xScale # Undefined /\ N(ev'.x) # plot.xZoomStart)
            => /\ plot'.zoom.xMin = getXPixelPos(plot, N(MinInt(ev'.x, plot.xZoomStart[1])))
               /\ plot'.zoom.xMax = getXPixelPos(plot, N(MaxInt(ev'.x, plot.xZoomStart[1])))
               /\ Lt(plot'.zoom.xMin, plot'.zoom.xMax)
               /\ ev'.rendered
        /\ (ev'.type = "up" /\ plot.zooming /\ Locked(plot) = "y"
              /\ plot.yScale # Undefined /\ N(ev'.y) # plot.yZoomStart)
            => /\ {plot'.zoom.yMin, plot'.zoom.yMax} =
                     {getYPixelPos(plot, plot.yZoomStart), getYPixelPos(plot, N(ev'.y))}
               /\ Lt(plot'.zoom.yMin, plot'.zoom.yMax)
               /\ ev'.rendered
      ]_vars

\* the axis whose drag distance from the anchor is the larger and above 1
Dominant(p, x, y) ==
    LET dx == AbsInt(x - p.xZoomStart[1])
        dy == AbsInt(y - p.yZoomStart[1])
    IN  IF dx > dy /\ dx > 1 THEN "x" ELSE IF dy > dx /\ dy > 1 THEN "y" ELSE "none"

\* C8 as stated: once a pointer-move has locked an axis, no later
\* pointer-move of the gesture changes it, and pointer-up commits the axis
\* first locked.
C8_LockNeverChanges ==
    [][ /\ (ev'.type = "move" /\ plot.zooming /\ Locked(plot) # "none")
            => Locked(plot') = Locked(plot)
        /\ (ev'.type = "up" /\ plot.zooming /\ Locked(plot) # "none")
            => Locked(plot) = ev.firstLock
      ]_vars

\* C8: within a drag, every pointer-move whose distance on one axis exceeds
\* both 1 pixel and the distance on the other axis locks that axis, replacing
\* an earlier lock; any other move leaves the lock as it is; never are both
\* axes locked; pointer-up commits on the axis locked last and on no other.
C8_LockFollowsLastDominantMove ==
    [][ /\ (ev'.type = "move" /\ plot.zooming)
            => /\ Locked(plot') = IF Dominant(plot, ev'.x, ev'.y) # "none"
                                  THEN Dominant(plot, ev'.x, ev'.y) ELSE Locked(plot)
               /\ ~(plot'.xZooming /\ plot'.yZooming)
               /\ plot'.zooming
        /\ (ev'.type = "up" /\ plot.zooming /\ Locked(plot) = "x")
            => /\ ev'.rendered
               /\ plot'.zoom.yMin = plot.zoom.yMin /\ plot'.zoom.yMax = plot.zoom.yMax
        /\ (ev'.type = "up" /\ plot.zooming /\ Locked(plot) = "y")
            => /\ ev'.rendered
               /\ plot'.zoom.xMin = plot.zoom.xMin /\ plot'.zoom.xMax = plot.zoom.xMax
      ]_vars

\* a pointer-move has switched the lock from x to y
C8_Witness == ev.type = "move" /\ plot.zooming /\ plot.yZooming /\ ev.firstLock = "x"

\* C9: a pointer-leave clears zooming, xZooming and yZooming, leaves the four
\* zoom values as they were and does not render; pointer-moves and a
\* pointer-up after it, with no pointer-down in between, change no zoom
\* value, lock nothing and do not render.
C9_LeaveCancelsGesture ==
    [][ /\ ev'.type = "out"
            => /\ ~plot'.zooming /\ ~plot'.xZooming /\ ~plot'.yZooming
               /\ ZoomOf(plot') = ZoomOf(plot)
               /\ ~ev'.rendered
        /\ (ev.afterOut # "no" /\ ev'.type \in {"move", "up"})
            => /\ ~plot'.zooming /\ ~plot'.xZooming /\ ~plot'.yZooming
               /\ ZoomOf(plot') = ZoomOf(plot)
               /\ ~ev'.rendered
      ]_vars

\* a pointer-up arrived after a pointer-leave cancelled a locked drag
C9_Witness == ev.type = "up" /\ ev.afterOut = "locked"

\* C10: a double-click sets the four zoom values to null and renders, and
\* after it every series' window is its full extent.
C10_DblClickResetsZoom ==
    [][ ev'.type = "dblclick"
            => /\ ZoomOf(plot') = <<Null, Null, Null, Null>>
               /\ ev'.rendered
               /\ \A k \in 1..Len(data') :
                     data'[k].startInd = 0 /\ data'[k].stopInd = Len(data'[k].x) - 1
      ]_vars

\* a double-click arrived after a zoom was committed
C10_Witness == ev.type = "dblclick" /\ ev.commits > 0 /\ ev.rendered

----------------------------------------------------------------------------
(* A plot being populated: series are constructed and added, preprocess()  *)
(* and getYBounds() are called.  The constructor checks none of its        *)
(* arguments, so every argument list below yields a series.                *)

\* a colour filter whose second boundary is no index of a 2-point series
BadFilter == [plotType |-> "", hasFilter |-> TRUE, index |-> <<0, 5>>,
              colors |-> <<"c0", "c1">>]

\* the constructor argument lists [x, y, tuple, o] drawn: the 5-point series of the spec, a
\* series that extends it on both sides, a tuple-valued series, a single
\* point, a series whose y values are all equal, and four invalid argument
\* lists (lengths differ, x not increasing, tuple widths differ, bad filter)
FitInputs ==
    <<[x |-> <<0, 1, 2, 3, 4>>, y |-> <<1, 3, 2, 5, 4>>, tuple |-> FALSE, o |-> NoFilter],
     [x |-> <<-1, 2, 5>>, y |-> <<0, 2, 1>>, tuple |-> FALSE, o |-> NoFilter],
     [x |-> <<1, 2, 3>>, y |-> <<<<1, 4>>, <<0, 2>>, <<3, -1>>>>, tuple |-> TRUE, o |-> NoFilter],
     [x |-> <<3>>, y |-> <<2>>, tuple |-> FALSE, o |-> NoFilter],
     [x |-> <<0, 1>>, y |-> <<1, 1>>, tuple |-> FALSE, o |-> NoFilter],
     [x |-> <<0, 1, 2>>, y |-> <<1, 2>>, tuple |-> FALSE, o |-> NoFilter],
     [x |-> <<2, 1>>, y |-> <<0, 1>>, tuple |-> FALSE, o |-> NoFilter],
     [x |-> <<0, 1>>, y |-> <<<<1, 2>>, <<3>>>>, tuple |-> TRUE, o |-> NoFilter],
     [x |-> <<0, 1>>, y |-> <<0, 1>>, tuple |-> FALSE, o |-> BadFilter]>>

\* pinned ranges: x to [1, 3], y to [0, 4]
FitZoomX == {<<Null, Null>>, <<N(1), N(3)>>}
FitZoomY == {<<Null, Null>>, <<N(0), N(4)>>}

InitFit ==
    /\ data = <<>>
    /\ \E zx \in FitZoomX, zy \in FitZoomY :
          plot = [Plot EXCEPT !.zoom = [xMin |-> zx[1], xMax |-> zx[2],
                                        yMin |-> zy[1], yMax |-> zy[2]]]
    /\ call = CallNone
    /\ bs = BsIdle
    /\ rs = RsIdle
    /\ walk = WalkIdle
    /\ ev = EvNone

\* plot.addData(new DashGraph.Data(x, y, options))
AddData ==
    /\ Len(data) < MaxSeries
    /\ \E n \in 1..Len(FitInputs) :
          /\ data' = Append(data, Data(FitInputs[n].x, FitInputs[n].y,
                                       FitInputs[n].tuple, FitInputs[n].o))
          /\ call' = [op |-> "addData"]
    /\ UNCHANGED <<plot, bs, rs, walk, ev>>

\* plot.preprocess(); call keeps its local variables xMin, xMax and, in the
\* auto-fit branch, yMin, yMax
Preprocess ==
    /\ Len(data) >= 1
    /\ \E res \in {preprocess(plot, data)} :
          /\ plot' = res.plot
          /\ data' = res.data
          /\ call' = [op |-> "preprocess",
                      xRange |-> preprocessXRange(plot, res.data),
                      yRange |-> IF plot.zoom.yMin # Null
                                 THEN <<Undefined, Undefined>>
                                 ELSE yExtrema(res.data, <<Undefined, Undefined>>, 1)]
    /\ UNCHANGED <<bs, rs, walk, ev>>

\* data.getYBounds() on series k
GetYBounds ==
    /\ \E k \in 1..Len(data) :
          call' = [op |-> "getYBounds", k |-> k, ret |-> getYBounds(data[k])]
    /\ UNCHANGED <<data, plot, bs, rs, walk, ev>>

NextFit == AddData \/ Preprocess \/ GetYBounds

SpecFit == InitFit /\ [][NextFit]_vars

\* what the specification requires of a series: x and y of one length, x
\* strictly increasing, tuples of one width, filter boundaries strictly
\* increasing indices of x
ValidSeries(d) ==
    /\ Len(d.x) = Len(d.y)
    /\ \A i \in 1..(Len(d.x) - 1) : d.x[i] < d.x[i + 1]
    /\ d.tuple => \A i \in 1..Len(d.y) : Len(d.y[i]) = Len(d.y[1])
    /\ \A n \in 1..Len(d.index) : d.index[n] >= 0 /\ d.index[n] < Len(d.x)
    /\ \A n \in 1..(Len(d.index) - 1) : d.index[n] < d.index[n + 1]

AllValid == \A k \in 1..Len(data) : ValidSeries(data[k])

MinOf(S) == CHOOSE v \in S : \A w \in S : v <= w
MaxOf(S) == CHOOSE v \in S : \A w \in S : v >= w

\* C12: after preprocess in auto-fit mode with several (valid) series, xMin is
\* the smallest first x value and xMax the largest last x value of all series.
C12_AutoFitMergesExtrema ==
    (call.op = "preprocess" /\ plot.zoom.xMin = Null /\ Len(data) >= 2 /\ AllValid)
        => /\ call.xRange[1] = N(MinOf({data[k].x[1] : k \in 1..Len(data)}))
           /\ call.xRange[2] = N(MaxOf({data[k].x[Len(data[k].x)] : k \in 1..Len(data)}))

\* the y values of series d at the indices of its window, every slot of a
\* tuple-valued series
WindowYs(d) ==
    IF d.tuple
    THEN {d.y[i + 1][j] : i \in d.startInd..d.stopInd, j \in 1..Len(d.y[1])}
    ELSE {d.y[i + 1] : i \in d.startInd..d.stopInd}

NonEmptyWindow(d) == 0 <= d.startInd /\ d.startInd <= d.stopInd /\ d.stopInd <= Len(d.x) - 1

\* C13: getYBounds() on a (valid) series with a non-empty window returns the
\* smallest and the largest y value at the window's indices, over every slot
\* for a tuple-valued series; for y = [1,3,2,5,4] and the full window, [1,5].
C13_YBoundsAreWindowMinMax ==
    call.op = "getYBounds"
        => LET d == data[call.k]
           IN  (ValidSeries(d) /\ NonEmptyWindow(d))
                   => /\ call.ret = <<N(MinOf(WindowYs(d))), N(MaxOf(WindowYs(d)))>>
                      /\ (~d.tuple /\ Len(d.y) = 5 /\ d.y = <<1, 3, 2, 5, 4>>
                            /\ d.startInd = 0 /\ d.stopInd = 4)
                           => call.ret = <<N(1), N(5)>>

\* getYBounds has returned the bounds of the tuple-valued series, whose
\* smallest and largest values are in different slots
C13_Witness ==
    /\ call.op = "getYBounds"
    /\ data[call.k].tuple /\ ValidSeries(data[call.k])
    /\ call.ret = <<N(-1), N(4)>>

\* the x range of the plot's (valid) series is zero-width: pinned with
\* zoom.xMin = zoom.xMax, or auto-fit with the smallest first x value equal to
\* the largest last x value
ZeroWidthX ==
    IF plot.zoom.xMin # Null
    THEN plot.zoom.xMin = plot.zoom.xMax
    ELSE MinOf({data[k].x[1] : k \in 1..Len(data)})
            = MaxOf({data[k].x[Len(data[k].x)] : k \in 1..Len(data)})

\* the y axis is auto-fit and all y values in the series' windows are equal
ZeroWidthY ==
    /\ plot.zoom.yMin = Null
    /\ \A k \in 1..Len(data) : NonEmptyWindow(data[k])
    /\ Cardinality(UNION {WindowYs(data[k]) : k \in 1..Len(data)}) = 1

\* C19: after preprocess on (valid) series whose x range is zero-width, xScale
\* is finite (it was not computed with a zero denominator), and likewise
\* yScale when the y axis is auto-fit and all visible y values are equal.
C19_ZeroWidthRangePadded ==
    (call.op = "preprocess" /\ AllValid /\ \A k \in 1..Len(data) : Len(data[k].x) >= 1)
        => /\ ZeroWidthX => (plot.xScale # Undefined /\ IsFinite(plot.xScale))
           /\ ZeroWidthY => (plot.yScale # Undefined /\ IsFinite(plot.yScale))

\* C20: every series of the plot is valid: x and y of the same length, x
\* strictly increasing, tuple y values of one width, colour-filter boundary
\* indices strictly increasing and valid indices of x (invalid input was
\* rejected at construction, so it was never added).
C20_NoInvalidSeriesAdded == AllValid

----------------------------------------------------------------------------
(* DashGraph.Plot.prototype.getTicks, one loop iteration at a time.  call   *)
(* holds its arguments and local variables and the position pc: "scale" in  *)
(* the loop over the multipliers, "ticks" in the loop that makes the ticks. *)

\* Math.floor and Math.ceil; NaN and the infinities are returned as they are
Floor(a) == IF a[2] = 0 THEN a ELSE N(a[1] \div a[2])
Ceil(a) == IF a[2] = 0 THEN a ELSE N(-((-a[1]) \div a[2]))

RECURSIVE Pow10(_)
Pow10(n) == IF n = 0 THEN 1 ELSE 10 * Pow10(n - 1)

\* floor(log10 r) for an integer r >= 1
RECURSIVE ExactLog10Floor(_)
ExactLog10Floor(r) == IF r < 10 THEN 0 ELSE 1 + ExactLog10Floor(r \div 10)

\* Math.floor(Math.log(r)/Math.LN10) for an integer r from 1 to 1000, in IEEE
\* double arithmetic.  The quotient is 0, 1 and 2 exactly for r = 1, 10 and
\* 100, and lies well inside its unit interval for every other r below 1000;
\* for r = 1000 it is 6.907755278982137/2.302585092994046 =
\* 2.9999999999999996, of which the floor is 2.
Log10Floor(r) == IF r = 1000 THEN 2 ELSE ExactLog10Floor(r)

\* var baseScale = Math.pow(10, basePower), for a range that is an integer
\* from 0 to 1000: Math.log(0) is -Infinity and Math.pow(10, -Infinity) is 0
baseScaleOf(range) == IF range = 0 THEN N(0) ELSE N(Pow10(Log10Floor(range)))

mults == <<Norm(1, 2), N(1), N(2), N(5)>>

\* the locals on entry to the first loop
getTicksEnter(minVal, maxVal, pixels) ==
    [op |-> "getTicks", pc |-> "scale", minVal |-> N(minVal), maxVal |-> N(maxVal),
     pixels |-> N(pixels), baseScale |-> baseScaleOf(maxVal - minVal), i |-> 0,
     scale |-> Undefined, low |-> Undefined, high |-> Undefined,
     nTicks |-> Undefined, spacing |-> Undefined, ticks |-> <<>>]

\* one iteration of the loop over mults, with its break
getTicksScale(p, t) ==
    LET scale == Mul(t.baseScale, mults[t.i + 1])
        low == Mul(Floor(Div(t.minVal, scale)), scale)
        high == Mul(Ceil(Div(t.maxVal, scale)), scale)
        nTicks == Div(Abs(Sub(high, low)), scale)
        spacing == Div(t.pixels, nTicks)
        t1 == [t EXCEPT !.scale = scale, !.low = low, !.high = high,
                        !.nTicks = nTicks, !.spacing = spacing]
    IN  IF Gt(spacing, N(p.minTickPixels)) \/ t.i + 1 >= Len(mults)
        THEN [t1 EXCEPT !.pc = "ticks", !.i = 0]
        ELSE [t1 EXCEPT !.i = @ + 1]

\* one iteration of the loop that makes the ticks
getTicksMake(t) ==
    LET val == Add(t.low, Mul(N(t.i), t.scale))
    IN  [t EXCEPT !.i = @ + 1,
                  !.ticks = IF Ge(val, t.minVal) /\ Le(val, t.maxVal)
                            THEN Append(@, val) ELSE @]

\* arguments drawn: minVal, maxVal - minVal and pixels
TickMins == {-3, 0, 2}
TickRanges == {0, 1, 4, 10, 97, 100, 1000}
TickPixels == {40, 100, 400}

InitTicks ==
    /\ \E minVal \in TickMins, range \in TickRanges, pixels \in TickPixels :
          call = getTicksEnter(minVal, minVal + range, pixels)
    /\ plot = Plot
    /\ data = <<>>
    /\ bs = BsIdle
    /\ rs = RsIdle
    /\ walk = WalkIdle
    /\ ev = EvNone

TicksScale ==
    /\ call.pc = "scale"
    /\ call' = getTicksScale(plot, call)
    /\ UNCHANGED <<plot, data, bs, rs, walk, ev>>

TicksMake ==
    /\ call.pc = "ticks"
    /\ Lt(N(call.i), call.nTicks)
    /\ call' = getTicksMake(call)
    /\ UNCHANGED <<plot, data, bs, rs, walk, ev>>

TicksReturn ==
    /\ call.pc = "ticks"
    /\ ~Lt(N(call.i), call.nTicks)
    /\ call' = [call EXCEPT !.pc = "done"]
    /\ UNCHANGED <<plot, data, bs, rs, walk, ev>>

NextTicks == TicksScale \/ TicksMake \/ TicksReturn

SpecTicks == InitTicks /\ [][NextTicks]_vars

\* the multiples of step within [lo, hi], ascending
MultiplesWithin(step, lo, hi) ==
    LET kmin == Ceil(Div(lo, step))[1]
        kmax == Floor(Div(hi, step))[1]
    IN  [n \in 1..(kmax - kmin + 1) |-> Mul(N(kmin + n - 1), step)]

\* C14: for maxVal > minVal, getTicks returns, in ascending order, exactly the
\* multiples of the chosen step that lie within [minVal, maxVal], those equal
\* to minVal and to maxVal included.
C14_TicksAreMultiplesWithinRange ==
    (call.op = "getTicks" /\ call.pc = "done" /\ Lt(call.minVal, call.maxVal))
        => call.ticks = MultiplesWithin(call.scale, call.minVal, call.maxVal)

\* the number of steps between floor(minVal/step)*step and ceil(maxVal/step)*step
StepsBetween(step) ==
    Div(Abs(Sub(Mul(Ceil(Div(call.maxVal, step)), step),
                Mul(Floor(Div(call.minVal, step)), step))), step)

\* 10^floor(log10(maxVal - minVal)), for an integer range of at least 1
ClaimedBase == N(Pow10(ExactLog10Floor(call.maxVal[1] - call.minVal[1])))

\* multiplier n gives more than minTickPixels pixels per step
Qualifies(n) ==
    Gt(Div(call.pixels, StepsBetween(Mul(ClaimedBase, mults[n]))), N(plot.minTickPixels))

ClaimedMult ==
    IF \E n \in 1..Len(mults) : Qualifies(n)
    THEN mults[CHOOSE n \in 1..Len(mults) : Qualifies(n) /\ \A k \in 1..(n - 1) : ~Qualifies(k)]
    ELSE mults[Len(mults)]

\* C15: for maxVal > minVal the step getTicks uses is 10^floor(log10(maxVal -
\* minVal)) times the first of 0.5, 1, 2, 5 that gives more than minTickPixels
\* pixels per step, or times 5 if none does; for getTicks(0, 97, 400)
\* consecutive ticks are at least 40 pixels apart.
C15_StepIsFirstQualifyingMultiple ==
    (call.op = "getTicks" /\ call.pc = "done" /\ Lt(call.minVal, call.maxVal))
        => /\ call.scale = Mul(ClaimedBase, ClaimedMult)
           /\ (call.minVal = N(0) /\ call.maxVal = N(97) /\ call.pixels = N(400))
                => Ge(Mul(call.scale, Div(call.pixels, Sub(call.maxVal, call.minVal))), N(40))

----------------------------------------------------------------------------
(* One series under a setBounds call that is repeated with the same        *)
(* arguments, with the updateFilter calls of render passes in between.     *)
(* call keeps the arguments, what the first call left (first), whether the *)
(* last call was a repetition (again) and whether a walk that reported a   *)
(* segment change came before it (walked).                                 *)

\* the window and the filter cursor of a series
WindowAndCursor(s) == <<s.startInd, s.stopInd, s.curFiltInd, s.nextInd>>

SetBoundsFirst ==
    /\ call.op = "none"
    /\ \E startTime \in BoundsOfLen(Len(data[1].x)),
          stopTime \in BoundsOfLen(Len(data[1].x)) :
          /\ data' = <<setBounds(data[1], startTime, stopTime)>>
          /\ walk' = [WalkIdle EXCEPT !.origin = "set", !.startTime = startTime,
                                      !.stopTime = stopTime]
          /\ call' = [op |-> "setBounds", startTime |-> startTime,
                      stopTime |-> stopTime, again |-> FALSE, walked |-> FALSE,
                      first |-> WindowAndCursor(setBounds(data[1], startTime, stopTime))]
    /\ UNCHANGED <<bs, plot, rs, ev>>

SetBoundsAgain ==
    /\ call.op = "setBounds"
    /\ walk.pc # "walking"
    /\ data' = <<setBounds(data[1], call.startTime, call.stopTime)>>
    /\ walk' = [WalkIdle EXCEPT !.origin = "set", !.startTime = call.startTime,
                                !.stopTime = call.stopTime]
    /\ call' = [call EXCEPT !.again = TRUE,
                            !.walked = walk.pc = "done" /\ walk.changes # {}]
    /\ UNCHANGED <<bs, plot, rs, ev>>

NextAgain == SetBoundsFirst \/ SetBoundsAgain \/ WalkBegin \/ WalkStep \/ WalkEnd

SpecAgain == InitData /\ [][NextAgain]_vars

\* C16: a setBounds call that repeats the arguments of the setBounds call
\* before it leaves startInd, stopInd, filter.curFiltInd and filter.nextInd
\* as the first call left them, also when updateFilter calls of a render pass
\* moved the cursor in between.
C16_SetBoundsIdempotent ==
    (call.op = "setBounds" /\ call.again /\ walk.pc = "idle")
        => WindowAndCursor(data[1]) = call.first

\* the second of two equal setBounds calls has returned, after a walk between
\* them that reported a segment change
C16_Witness ==
    /\ call.op = "setBounds" /\ call.again /\ call.walked /\ walk.pc = "idle"
    /\ data[1].hasFilter

----------------------------------------------------------------------------
(* Render passes over plots of several series, tuple-valued series and     *)
(* series with a plot type, renderData one loop head at a time.            *)

FilterAt2 == [plotType |-> "", hasFilter |-> TRUE, index |-> <<0, 2>>,
              colors |-> <<"c0", "c1">>]
PlotTypeOnly(t) == [plotType |-> t, hasFilter |-> FALSE, index |-> <<>>, colors |-> <<>>]

\* the plots: one series of plot type 'fast'; a default series and a 'quick'
\* one; a tuple-valued series with a colour filter; a filtered series whose
\* last point reports a segment change and is coalesced, followed by a
\* series without a filter; a filtered series followed by an unfiltered one
CurveInputs ==
    << <<Data(<<0, 1, 3>>, <<0, 1, 2>>, FALSE, PlotTypeOnly("fast"))>>,
       <<Data(<<0, 1, 3>>, <<0, 1, 2>>, FALSE, NoFilter),
         Data(<<0, 1, 3>>, <<2, 1, 0>>, FALSE, PlotTypeOnly("quick"))>>,
       <<Data(<<0, 1, 2, 3>>, <<<<0, 3>>, <<1, 2>>, <<2, 1>>, <<3, 0>>>>, TRUE, FilterAt2)>>,
       <<Data(<<0, 5000, 5001>>, <<0, 1, 1>>, FALSE, FilterAt2),
         Data(<<0, 5001>>, <<0, 1>>, FALSE, NoFilter)>>,
       <<Data(<<0, 1, 2, 3>>, <<0, 3, 1, 2>>, FALSE, FilterAt2),
         Data(<<0, 2, 3>>, <<3, 0, 1>>, FALSE, NoFilter)>> >>

\* pinned ranges: x to [1, 2], y to [1, 2]
CurveZoomX == {<<Null, Null>>, <<N(1), N(2)>>}
CurveZoomY == {<<Null, Null>>, <<N(1), N(2)>>}

InitCurves ==
    /\ \E n \in 1..Len(CurveInputs) : data = CurveInputs[n]
    /\ \E zx \in CurveZoomX, zy \in CurveZoomY :
          plot = [Plot EXCEPT !.zoom = [xMin |-> zx[1], xMax |-> zx[2],
                                        yMin |-> zy[1], yMax |-> zy[2]]]
    /\ rs = RsIdle
    /\ bs = BsIdle
    /\ walk = WalkIdle
    /\ ev = EvNone
    /\ call = CallNone

SpecCurves == InitCurves /\ [][NextRender]_vars

IsInt(v) == v[2] = 1

\* the first window point of series d is not left of the plot area
FirstNotLeft(d) ==
    ~Lt(getXCanvasPos(plot, N(d.x[d.startInd + 1])), N(plot.plotXStart))

\* C21: while renderData walks a curve of a series constructed with plot type
\* 'fast', the pixel position it keeps of the last point (xPixValLast, and
\* yPixValLast when the first point was not interpolated) is an integer; for
\* a series of the default type xPixValLast is the exact canvas position of
\* one of the window's x values, or the left edge.
C21_FastIsIntegerNormalIsExact ==
    rs.pc = "point"
        => LET d == data[rs.k + 1]
           IN  /\ d.plotType = "fast"
                    => /\ IsInt(rs.xPixValLast)
                       /\ FirstNotLeft(d) => IsInt(rs.yPixValLast)
               /\ d.plotType = "normal"
                    => \/ rs.xPixValLast = N(plot.plotXStart)
                       \/ \E i \in d.startInd..d.stopInd :
                             rs.xPixValLast = getXCanvasPos(plot, N(d.x[i + 1]))

\* the x range of the pass: <<xMin, xMax>> of preprocess
DomainX == preprocessXRange(plot, data)
\* the ends and the middle of the x range
DomainXs == {ToNum(DomainX[1]), ToNum(DomainX[2]),
             Mul(Add(ToNum(DomainX[1]), ToNum(DomainX[2])), Norm(1, 2))}
\* y values of the pass: those of the first series and the pinned ones
DomainYs == {N(data[1].y[i]) : i \in 1..Len(data[1].y)}
               \cup {ToNum(v) : v \in {plot.zoom.yMin, plot.zoom.yMax} \ {Null}}

\* C22: at the end of a render pass with both scales non-zero, the value of
\* the pixel position of a value of the range is that value again, on both
\* axes, and the ends of the x range lie at the pixels plotXStart and
\* plotXStart + plotWidth.
C22_PositionsRoundTrip ==
    (rs.pc = "done" /\ plot.xScale # N(0) /\ plot.yScale # N(0))
        => /\ \A v \in DomainXs : getXPixelPos(plot, getXCanvasPos(plot, v)) = v
           /\ \A v \in DomainYs : getYPixelPos(plot, getYCanvasPos(plot, v)) = v
           /\ getXCanvasPos(plot, DomainX[1]) = N(plot.plotXStart)
           /\ getXCanvasPos(plot, DomainX[2]) = N(plot.plotXStart + plot.plotWidth)

\* C23: while renderData walks a curve the flags yTooHigh and yTooLow are
\* never both true.
C23_ClipFlagsExclusive ==
    rs.pc # "idle" => ~(rs.yTooHigh /\ rs.yTooLow)

\* C24: every coordinate renderData has passed to moveTo or lineTo lies in
\* the plot rectangle: plotXStart <= x <= width, plotYStart <= y <= plotHeight.
C24_DrawnInsidePlotRectangle ==
    rs.pc # "idle"
        => \A n \in 1..Len(rs.ctx.calls) :
              LET c == rs.ctx.calls[n]
              IN  /\ Le(N(plot.plotXStart), c.x) /\ Le(c.x, N(plot.width))
                  /\ Le(N(plot.plotYStart), c.y) /\ Le(c.y, N(plot.plotHeight))

\* C25: once resetBounds or setBounds has been called on a series with a
\* colour filter, and after every updateFilter call that follows, curFiltInd
\* is an index of filter.index, nextInd is filter.index[curFiltInd + 1] when
\* curFiltInd is not the last segment, and nextInd is -1 when it is the last.
C25_CursorWellFormed ==
    LET s == data[1]
        last == Len(s.index) - 1
    IN  (s.hasFilter /\ walk.origin # "ctor")
            => /\ IsIndex(s.index, s.curFiltInd)
               /\ s.curFiltInd[1] < last => s.nextInd = N(s.index[s.curFiltInd[1] + 2])
               /\ s.curFiltInd[1] = last => s.nextInd = N(-1)

\* renderData is at the first point of a curve: the path was begun, the
\* stroke colour set and the first moveTo made
AtCurveStart == rs.pc = "point" /\ rs.i = data[rs.k + 1].startInd + 1

\* C27: at the start of every curve slot of a tuple-valued series with a
\* colour filter, the filter cursor is on the segment that contains the
\* window's first index and the stroke colour is that segment's colour.
C27_EverySlotStartsOnStartSegment ==
    AtCurveStart
        => LET d == data[rs.k + 1]
               seg == SegmentOf(d, d.startInd)
           IN  (d.tuple /\ d.hasFilter)
                   => /\ d.curFiltInd = N(seg)
                      /\ rs.ctx.strokeStyle = d.colors[seg + 1]

\* C28: updateColor is false at the start of every curve slot of every
\* series.
C28_UpdateColorNotCarried ==
    AtCurveStart => ~rs.updateColor

SpecSearchLive == InitSearch /\ [][NextSearch]_vars /\ WF_vars(NextSearch)

\* the least k with 2^k >= n, for n >= 1
RECURSIVE CeilLog2(_)
CeilLog2(n) == IF n <= 1 THEN 0 ELSE 1 + CeilLog2((n + 1) \div 2)

\* C30: the search returns, for every array length from 0 and every target;
\* each iteration picks mid strictly between lo and hi and leaves hi - lo
\* smaller than it was; and the number of iterations is at most
\* ceil(log2(length)) (none for length 0).
C30_SearchTerminatesInLogSteps ==
    /\ <>(bs.pc = "done")
    /\ [](bs.iters <= CeilLog2(Len(bs.a)))
    /\ [][bs'.iters # bs.iters
            => /\ bs.lo < RoundMid(bs.lo, bs.hi)
               /\ RoundMid(bs.lo, bs.hi) < bs.hi
               /\ bs'.hi - bs'.lo < bs.hi - bs.lo]_vars

\* a search of an array of at least 4 elements has returned after 2 or more
\* iterations
C30_Witness ==
    /\ bs.pc = "done" /\ Len(bs.a) >= 4 /\ bs.iters >= 2

----------------------------------------------------------------------------
(* A plot that has one zoom committed already, under update() and pointer  *)
(* events: the plot after update(), pointer-down at (50, 60), a move and   *)
(* the pointer-up that committed the range.  ev.commits counts the commits *)
(* after that one.                                                         *)

FirstGesture == {[axis |-> "x", x |-> 120, y |-> 60], [axis |-> "y", x |-> 50, y |-> 130]}

\* the handlers' result [plot, data, rendered] after the gesture g on series ds
AfterGesture(ds, g) ==
    CHOOSE r \in {onmouseup(mv.plot, mv.data, g.x, g.y) :
                    mv \in {onmousemove(dn.plot, dn.data, g.x, g.y) :
                              dn \in {onmousedown(up.plot, up.data, 50, 60) :
                                        up \in {rendered(Plot, ds)}}}} : TRUE

InitPinned ==
    /\ \E ds \in {<<SeriesA>>, <<SeriesA, SeriesLeft>>}, g \in FirstGesture :
          \E res \in {AfterGesture(ds, g)} :
              /\ plot = res.plot
              /\ data = res.data
              /\ ev = [EvNone EXCEPT !.type = "up", !.x = g.x, !.y = g.y,
                                     !.rendered = res.rendered]
    /\ call = CallNone
    /\ bs = BsIdle
    /\ rs = RsIdle
    /\ walk = WalkIdle

SpecPinned == InitPinned /\ [][NextZoom]_vars

\* C26: a pointer-up that commits an x zoom leaves zoom.yMin and zoom.yMax as
\* they were, one that commits a y zoom leaves zoom.xMin and zoom.xMax as they
\* were, and a pointer-up while zooming with no axis locked leaves all four
\* as they were and does not render.
C26_CommitLeavesOtherAxis ==
    [][ ev'.type = "up" =>
          /\ (plot.zooming /\ Locked(plot) = "x")
                => /\ plot'.zoom.yMin = plot.zoom.yMin
                   /\ plot'.zoom.yMax = plot.zoom.yMax
          /\ (plot.zooming /\ Locked(plot) = "y")
                => /\ plot'.zoom.xMin = plot.zoom.xMin
                   /\ plot'.zoom.xMax = plot.zoom.xMax
          /\ (plot.zooming /\ Locked(plot) = "none")
                => /\ ZoomOf(plot') = ZoomOf(plot)
                   /\ ~ev'.rendered
      ]_vars

\* a pointer-up has committed a zoom on one axis of a plot whose other axis
\* was pinned before: both ranges are pinned now
C26_Witness ==
    /\ ev.type = "up" /\ ev.rendered /\ ev.commits = 1
    /\ plot.zoom.xMin # Null /\ plot.zoom.yMin # Null

====
